---- MODULE Spec2Model ----
(***************************************************************************)
(* A model of the Obsidian sentence-counter plugin (src/main.js).          *)
(*                                                                         *)
(* A JavaScript string is modelled as a sequence of one-character strings, *)
(* so that "abc" is <<"a", "b", "c">>.  Every regular expression of the    *)
(* plugin is modelled by an operator that gives, for a start position, the *)
(* position of the last character of the match the backtracking matcher    *)
(* finds (0 when there is none), and String.prototype.replace with the g   *)
(* flag by Rewrite, which scans the ORIGINAL string from left to right.    *)
(***************************************************************************)
EXTENDS Integers, Sequences, FiniteSets, TLC

VARIABLES
    vault,         \* the documents a markdown leaf of this workspace can hold
    keyboard,      \* the pieces of text one editor-change event can insert
    activeEditor,  \* app.workspace.activeEditor?.editor exists
    text,          \* editor.getValue()
    settings,      \* this.settings (the two flags the counting reads)
    timer,         \* the debounce closure's timeout is pending
    timers,        \* the timeouts debounce() has set that are pending
    edits,         \* editor-change events since the document was opened
    last,          \* the locals of the latest updateCount() call
    loaded,        \* the plugin is between onload() and onunload()
    loads,         \* onload() calls so far, each on a new plugin object
    displayLocation,  \* this.settings.displayLocation
    showWordCount,    \* this.settings.showWordCount
    saving,        \* saveSettings() calls that await saveData()
    statusBarEl,   \* this.statusBarEl: "null", or an element that is
                   \* "attached" to the status bar or "removed" from it
    statusBar      \* the elements addStatusBarItem() gave that are attached

\* what the display of the counts is made of
display ==
    <<loaded, loads, displayLocation, showWordCount, saving, statusBarEl,
      statusBar>>

vars ==
    <<vault, keyboard, activeEditor, text, settings, timer, timers, edits, last,
      display>>

----------------------------------------------------------------------------
(* Bounds of the model.                                                    *)

\* editor-change events on one document
MaxEdits == 3

\* onload() calls in one behaviour
MaxLoads == 2

\* saveSettings() calls that await saveData() at one time
MaxSaving == 2

----------------------------------------------------------------------------
(* Characters.                                                             *)

UpperCase == <<"A", "B", "C", "D", "E", "F", "G", "H", "I", "J", "K", "L", "M",
               "N", "O", "P", "Q", "R", "S", "T", "U", "V", "W", "X", "Y", "Z">>
LowerCase == <<"a", "b", "c", "d", "e", "f", "g", "h", "i", "j", "k", "l", "m",
               "n", "o", "p", "q", "r", "s", "t", "u", "v", "w", "x", "y", "z">>
Letters == {UpperCase[i] : i \in 1..26} \cup {LowerCase[i] : i \in 1..26}
Digits == {"0", "1", "2", "3", "4", "5", "6", "7", "8", "9"}

\* \w
WordChars == Letters \cup Digits \cup {"_"}
\* \s, and what String.prototype.trim removes
WhiteSpace == {" ", "\t", "\n", "\r"}
\* what . does not match, and what ^ and $ (m flag) look for
LineTerminators == {"\n", "\r"}

IsWord(c) == c \in WordChars
IsSpace(c) == c \in WhiteSpace

\* the i flag: characters are compared after case folding
Folded == [c \in {UpperCase[i] : i \in 1..26} |->
              LowerCase[CHOOSE i \in 1..26 : UpperCase[i] = c]]
ToLower(c) == IF c \in DOMAIN Folded THEN Folded[c] ELSE c

----------------------------------------------------------------------------
(* Strings.                                                                *)

\* s.slice(i - 1, j) in 1-based positions; empty when j < i
Slice(s, i, j) == IF j < i THEN <<>> ELSE SubSeq(s, i, j)

\* s.startsWith(p, i - 1)
StartsWithAt(s, p, i) ==
    /\ i >= 1
    /\ i + Len(p) - 1 <= Len(s)
    /\ \A k \in 1..Len(p) : s[i + k - 1] = p[k]

\* the position after the longest run of characters of class cls from i on
RunEnd(s, cls, i) ==
    IF \E j \in i..Len(s) : s[j] \notin cls
    THEN CHOOSE j \in i..Len(s) : s[j] \notin cls /\ \A k \in i..(j - 1) : s[k] \in cls
    ELSE Len(s) + 1

\* the position after the longest run of characters outside class cls from i on
RunEndNot(s, cls, i) ==
    IF \E j \in i..Len(s) : s[j] \in cls
    THEN CHOOSE j \in i..Len(s) : s[j] \in cls /\ \A k \in i..(j - 1) : s[k] \notin cls
    ELSE Len(s) + 1

\* ^ with the m flag: the start of input or just after a line terminator
AtLineStart(s, i) == i = 1 \/ (i - 1 <= Len(s) /\ s[i - 1] \in LineTerminators)

\* $ with the m flag: the end of input or just before a line terminator
AtLineEnd(s, i) == i = Len(s) + 1 \/ (i <= Len(s) /\ s[i] \in LineTerminators)

\* \b: exactly one of the characters around position i is a word character
AtWordBoundary(s, i) ==
    LET before == i >= 2 /\ i - 1 <= Len(s) /\ IsWord(s[i - 1])
        after == i >= 1 /\ i <= Len(s) /\ IsWord(s[i])
    IN before # after

\* s.trim()
Trim(s) ==
    LET first == RunEnd(s, WhiteSpace, 1)
    IN IF first > Len(s) THEN <<>>
       ELSE LET final == CHOOSE j \in first..Len(s) :
                             /\ ~IsSpace(s[j])
                             /\ \A k \in (j + 1)..Len(s) : IsSpace(s[k])
            IN SubSeq(s, first, final)

\* s.replace(/re/g, ...): matchEnd[i] is the last position of the match that
\* starts at i (0: none), replacement[i] what it is replaced by.  The scan
\* goes left to right over the original string: from position i it takes the
\* first position that starts a match, and resumes after that match.
RECURSIVE Rewrite(_, _, _, _)
Rewrite(s, matchEnd, replacement, i) ==
    IF \A j \in i..Len(s) : matchEnd[j] = 0 THEN Slice(s, i, Len(s))
    ELSE LET j == CHOOSE j \in i..Len(s) :
                      matchEnd[j] # 0 /\ \A k \in i..(j - 1) : matchEnd[k] = 0
         IN Slice(s, i, j - 1) \o replacement[j]
                \o Rewrite(s, matchEnd, replacement, matchEnd[j] + 1)

\* s.replace(/re/g, "")
Delete(s, matchEnd) == Rewrite(s, matchEnd, [i \in 1..Len(s) |-> <<>>], 1)

\* s.split("\n"): the pieces between the newlines, at least one
RECURSIVE SplitLines(_)
SplitLines(s) ==
    LET n == RunEndNot(s, {"\n"}, 1)
    IN IF n > Len(s) THEN <<s>>
       ELSE <<Slice(s, 1, n - 1)>> \o SplitLines(Slice(s, n + 1, Len(s)))

\* lines.join("\n")
RECURSIVE JoinLines(_)
JoinLines(lines) ==
    IF lines = <<>> THEN <<>>
    ELSE IF Len(lines) = 1 THEN lines[1]
    ELSE lines[1] \o <<"\n">> \o JoinLines(Tail(lines))

----------------------------------------------------------------------------
(* removeFrontmatter                                                       *)

Dashes == <<"-", "-", "-">>

\* a search for the closing line that starts at line 0, the opening line
removeFrontmatterFromTop(t) ==
    IF ~StartsWithAt(t, Dashes, 1) THEN t
    ELSE LET lines == SplitLines(t)
             closing == {i \in 1..Len(lines) : Trim(lines[i]) = Dashes}
             endIndex == CHOOSE i \in closing : \A j \in closing : i <= j
         IN JoinLines(Slice(lines, endIndex + 1, Len(lines)))

removeFrontmatter(t) ==
    IF ~StartsWithAt(t, Dashes, 1) THEN t
    ELSE LET lines == SplitLines(t)
             closing == {i \in 2..Len(lines) : Trim(lines[i]) = Dashes}
         IN IF closing = {} THEN t
            ELSE LET endIndex == CHOOSE i \in closing : \A j \in closing : i <= j
                 IN JoinLines(Slice(lines, endIndex + 1, Len(lines)))

----------------------------------------------------------------------------
(* cleanText                                                               *)

\* U+0060, which a TLA+ string cannot hold: the atom stands for the character
Backtick == "BACKTICK"
Fence == <<Backtick, Backtick, Backtick>>

\* /```[\s\S]*?```/ : an opening fence and, lazily, the first closing fence
\* that starts after it
FencedCodeEnd(s, i) ==
    IF /\ StartsWithAt(s, Fence, i)
       /\ \E j \in (i + 3)..Len(s) : StartsWithAt(s, Fence, j)
    THEN (CHOOSE j \in (i + 3)..Len(s) :
              /\ StartsWithAt(s, Fence, j)
              /\ \A k \in (i + 3)..(j - 1) : ~StartsWithAt(s, Fence, k)) + 2
    ELSE 0

\* /`[^`]+`/ : a backtick, one or more characters that are no backtick, a
\* backtick
InlineCodeEnd(s, i) ==
    IF i + 1 <= Len(s) /\ s[i] = Backtick /\ s[i + 1] # Backtick
    THEN LET j == RunEndNot(s, {Backtick}, i + 1)
         IN IF j <= Len(s) THEN j ELSE 0
    ELSE 0

\* (?:^>.*\n?)* from position p on: the position after the last line taken
RECURSIVE QuoteLinesEnd(_, _)
QuoteLinesEnd(s, p) ==
    IF p <= Len(s) /\ AtLineStart(s, p) /\ s[p] = ">"
    THEN LET q == RunEndNot(s, LineTerminators, p + 1)
         IN QuoteLinesEnd(s, IF q <= Len(s) /\ s[q] = "\n" THEN q + 1 ELSE q)
    ELSE p

\* /^>\s*\[!\w+\][^\n]*\n?(?:^>.*\n?)*/m
CalloutEnd(s, i) ==
    IF i <= Len(s) /\ AtLineStart(s, i) /\ s[i] = ">"
    THEN LET j == RunEnd(s, WhiteSpace, i + 1)
             w == RunEnd(s, WordChars, j + 2)
         IN IF /\ StartsWithAt(s, <<"[", "!">>, j)
               /\ w > j + 2
               /\ w <= Len(s)
               /\ s[w] = "]"
            THEN LET k == RunEndNot(s, {"\n"}, w + 1)
                 IN QuoteLinesEnd(s, IF k <= Len(s) THEN k + 1 ELSE k) - 1
            ELSE 0
    ELSE 0

\* /^>\s*$/m : \s* gives back characters until $ holds
BareQuoteEnd(s, i) ==
    IF i <= Len(s) /\ AtLineStart(s, i) /\ s[i] = ">"
    THEN LET q == RunEnd(s, WhiteSpace, i + 1)
             stops == {p \in (i + 1)..q : AtLineEnd(s, p)}
         IN IF stops = {} THEN 0
            ELSE (CHOOSE p \in stops : \A r \in stops : r <= p) - 1
    ELSE 0

RemoveFencedCode(s) == Delete(s, [i \in 1..Len(s) |-> FencedCodeEnd(s, i)])
\* inline code replaced by a marker instead of by nothing
RemoveInlineCodeMarked(s) ==
    Rewrite(s, [i \in 1..Len(s) |-> InlineCodeEnd(s, i)],
            [i \in 1..Len(s) |-> <<"[", "c", "o", "d", "e", "]">>], 1)

RemoveInlineCode(s) == Delete(s, [i \in 1..Len(s) |-> InlineCodeEnd(s, i)])
RemoveCallouts(s) == Delete(s, [i \in 1..Len(s) |-> CalloutEnd(s, i)])
RemoveBareQuotes(s) == Delete(s, [i \in 1..Len(s) |-> BareQuoteEnd(s, i)])

cleanText(t, ignoreCallouts) ==
    IF Len(Trim(t)) = 0 THEN <<>>
    ELSE LET code == RemoveInlineCode(RemoveFencedCode(removeFrontmatter(t)))
         IN IF ignoreCallouts THEN RemoveBareQuotes(RemoveCallouts(code))
            ELSE code

----------------------------------------------------------------------------
(* countWords                                                              *)

\* s.split(/[cls]+/): the pieces between the longest runs of cls characters,
\* an empty piece before a leading run and after a trailing one
RECURSIVE SplitRuns(_, _)
SplitRuns(s, cls) ==
    LET n == RunEndNot(s, cls, 1)
    IN IF n > Len(s) THEN <<s>>
       ELSE <<Slice(s, 1, n - 1)>>
                \o SplitRuns(Slice(s, RunEnd(s, cls, n), Len(s)), cls)

NonEmpty(piece) == Len(piece) > 0

\* countWords without its guard, its trim and its filter
countWordsUnguarded(t) == Len(SplitRuns(t, WhiteSpace))

\* countWords splitting on the space character alone
countWordsOnSpaces(t) ==
    IF Len(Trim(t)) = 0 THEN 0
    ELSE Len(SelectSeq(SplitRuns(Trim(t), {" "}), NonEmpty))

countWords(t) ==
    IF Len(Trim(t)) = 0 THEN 0
    ELSE Len(SelectSeq(SplitRuns(Trim(t), WhiteSpace), NonEmpty))

----------------------------------------------------------------------------
(* countSentences                                                          *)

exceptions == <<
    <<"M", "r", ".">>, <<"M", "r", "s", ".">>, <<"M", "s", ".">>,
    <<"D", "r", ".">>, <<"P", "r", "o", "f", ".">>, <<"S", "r", ".">>,
    <<"J", "r", ".">>, <<"v", "s", ".">>, <<"e", "t", "c", ".">>,
    <<"i", ".", "e", ".">>, <<"e", ".", "g", ".">>, <<"c", "a", ".">>,
    <<"c", "f", ".">>, <<"I", "n", "c", ".">>, <<"L", "t", "d", ".">>,
    <<"C", "o", "r", "p", ".">>, <<"C", "o", ".">>,
    <<"A", "v", "e", ".">>, <<"S", "t", ".">>, <<"R", "d", ".">>,
    <<"B", "l", "v", "d", ".">>, <<".", "j", "s">>, <<".", "c", "s", "s">>,
    <<".", "m", "d">>, <<".", "t", "x", "t">>,
    <<"P", "h", ".", "D", ".">>, <<"M", ".", "D", ".">>, <<"B", ".", "A", ".">>,
    <<"M", ".", "A", ".">>, <<"U", ".", "S", ".">>, <<"U", ".", "K", ".">>,
    <<"a", ".", "m", ".">>, <<"p", ".", "m", ".">> >>

PERIOD_PLACEHOLDER ==
    <<"P", "E", "R", "I", "O", "D", "_",
      "P", "L", "A", "C", "E", "H", "O", "L", "D", "E", "R">>
ELLIPSIS_PLACEHOLDER ==
    <<"E", "L", "L", "I", "P", "S", "I", "S", "_",
      "P", "L", "A", "C", "E", "H", "O", "L", "D", "E", "R">>

\* ex.replace(/\./g, "PERIOD_PLACEHOLDER")
RECURSIVE Protected(_)
Protected(ex) ==
    IF ex = <<>> THEN <<>>
    ELSE (IF Head(ex) = "." THEN PERIOD_PLACEHOLDER ELSE <<Head(ex)>>)
             \o Protected(Tail(ex))

\* the expression without its i flag
ExceptionEndCaseSensitive(s, ex, i) ==
    IF /\ i + Len(ex) - 1 <= Len(s)
       /\ s[i] = ex[1]
       /\ AtWordBoundary(s, i)
       /\ \A k \in 2..Len(ex) : s[i + k - 1] = ex[k]
    THEN i + Len(ex) - 1
    ELSE 0

\* new RegExp(`\\b${escapedEx}`, "gi") at position i
ExceptionEnd(s, ex, i) ==
    IF /\ i + Len(ex) - 1 <= Len(s)
       /\ ToLower(s[i]) = ToLower(ex[1])
       /\ AtWordBoundary(s, i)
       /\ \A k \in 2..Len(ex) : ToLower(s[i + k - 1]) = ToLower(ex[k])
    THEN i + Len(ex) - 1
    ELSE 0

ReplaceException(s, ex) ==
    Rewrite(s, [i \in 1..Len(s) |-> ExceptionEnd(s, ex, i)],
            [i \in 1..Len(s) |-> Protected(ex)], 1)

\* where the first period of the m-th exception stands
FirstPeriod ==
    [m \in 1..Len(exceptions) |->
        CHOOSE k \in 1..Len(exceptions[m]) :
            /\ exceptions[m][k] = "."
            /\ \A j \in 1..(k - 1) : exceptions[m][j] # "."]

\* for (const ex of exceptions) ..., from the n-th exception on.  replace
\* leaves a string in which the expression matches nowhere as it is, so the
\* loop is entered at the next exception that matches somewhere in working;
\* an exception matches only where its first period meets a period of
\* working.
RECURSIVE ReplaceExceptions(_, _)
ReplaceExceptions(working, n) ==
    LET periods == {i \in 1..Len(working) : working[i] = "."}
        matching == {m \in n..Len(exceptions) :
                         \E p \in periods :
                             /\ p >= FirstPeriod[m]
                             /\ ExceptionEnd(working, exceptions[m],
                                             p - FirstPeriod[m] + 1) # 0}
    IN IF matching = {} THEN working
       ELSE LET m == CHOOSE m \in matching : \A k \in matching : m <= k
            IN ReplaceExceptions(ReplaceException(working, exceptions[m]), m + 1)

\* /\.{3}/
EllipsisEnd(s, i) == IF StartsWithAt(s, <<".", ".", ".">>, i) THEN i + 2 ELSE 0

ReplaceEllipsis(s) ==
    Rewrite(s, [i \in 1..Len(s) |-> EllipsisEnd(s, i)],
            [i \in 1..Len(s) |-> ELLIPSIS_PLACEHOLDER], 1)

Terminators == {".", "!", "?"}

NonBlank(piece) == Len(Trim(piece)) > 0

countSentences(t) ==
    IF Len(Trim(t)) = 0 THEN 0
    ELSE LET working == ReplaceEllipsis(ReplaceExceptions(t, 1))
         IN Len(SelectSeq(SplitRuns(working, Terminators), NonBlank))

----------------------------------------------------------------------------
(* stripMarkdown                                                           *)

\* /\[([^\]]+)\]\([^\)]+\)/ : the position of the "]" that ends group 1
LinkLabelEnd(s, i) == RunEndNot(s, {"]"}, i + 1)
LinkEnd(s, i) ==
    LET r == LinkLabelEnd(s, i)
        q == RunEndNot(s, {")"}, r + 2)
    IN IF /\ i <= Len(s) /\ s[i] = "["
          /\ r > i + 1 /\ r + 1 <= Len(s) /\ s[r + 1] = "("
          /\ q > r + 2 /\ q <= Len(s)
       THEN q ELSE 0

\* /\[\[([^\]|]+)\|([^\]]+)\]\]/ : the position of the "|"
PipedTargetEnd(s, i) == RunEndNot(s, {"]", "|"}, i + 2)
PipedWikiLinkEnd(s, i) ==
    LET r == PipedTargetEnd(s, i)
        q == RunEndNot(s, {"]"}, r + 1)
    IN IF /\ StartsWithAt(s, <<"[", "[">>, i)
          /\ r > i + 2 /\ r <= Len(s) /\ s[r] = "|"
          /\ q > r + 1 /\ StartsWithAt(s, <<"]", "]">>, q)
       THEN q + 1 ELSE 0

\* /\[\[([^\]]+)\]\]/
WikiLinkEnd(s, i) ==
    LET r == RunEndNot(s, {"]"}, i + 2)
    IN IF /\ StartsWithAt(s, <<"[", "[">>, i)
          /\ r > i + 2 /\ StartsWithAt(s, <<"]", "]">>, r)
       THEN r + 1 ELSE 0

\* /!\[([^\]]*)\]\([^\)]+\)/
ImageEnd(s, i) ==
    LET r == RunEndNot(s, {"]"}, i + 2)
        q == RunEndNot(s, {")"}, r + 2)
    IN IF /\ StartsWithAt(s, <<"!", "[">>, i)
          /\ r + 1 <= Len(s) /\ s[r + 1] = "("
          /\ q > r + 2 /\ q <= Len(s)
       THEN q ELSE 0

\* (.*?) followed by the delimiter d again: where the closing d starts (0:
\* nowhere before the end of the line)
ClosingAt(s, d, i) ==
    LET from == i + Len(d)
        lineEnd == RunEndNot(s, LineTerminators, from)
        found == {j \in from..lineEnd : StartsWithAt(s, d, j) /\ j + Len(d) <= lineEnd}
    IN IF StartsWithAt(s, d, i) /\ found # {}
       THEN CHOOSE j \in found : \A k \in found : j <= k
       ELSE 0

\* the delimiter of ds that the text has at position i (<<>>: none)
DelimiterAt(s, ds, i) ==
    IF \E d \in ds : StartsWithAt(s, d, i)
    THEN CHOOSE d \in ds : StartsWithAt(s, d, i)
    ELSE <<>>

\* /(d1|d2)(.*?)\1/ for the delimiters ds, none a prefix of another
PairEnd(s, ds, i) ==
    LET d == DelimiterAt(s, ds, i)
    IN IF d # <<>> /\ ClosingAt(s, d, i) # 0
       THEN ClosingAt(s, d, i) + Len(d) - 1 ELSE 0
PairContent(s, ds, i) ==
    LET d == DelimiterAt(s, ds, i)
    IN Slice(s, i + Len(d), ClosingAt(s, d, i) - 1)

Unwrap(s, ds) ==
    Rewrite(s, [i \in 1..Len(s) |-> PairEnd(s, ds, i)],
            [i \in 1..Len(s) |-> PairContent(s, ds, i)], 1)

\* /^#{1,6}\s+/m
HeadingEnd(s, i) ==
    LET h == RunEnd(s, {"#"}, i)
        w == RunEnd(s, WhiteSpace, h)
    IN IF AtLineStart(s, i) /\ h > i /\ h - i <= 6 /\ w > h
       THEN w - 1 ELSE 0

\* /^>\s*/m
QuoteMarkerEnd(s, i) ==
    IF i <= Len(s) /\ AtLineStart(s, i) /\ s[i] = ">"
    THEN RunEnd(s, WhiteSpace, i + 1) - 1 ELSE 0

\* /^[\s]*[-*+]\s+/m
BulletEnd(s, i) ==
    LET j == RunEnd(s, WhiteSpace, i)
        w == RunEnd(s, WhiteSpace, j + 1)
    IN IF /\ AtLineStart(s, i) /\ j <= Len(s) /\ s[j] \in {"-", "*", "+"}
          /\ w > j + 1
       THEN w - 1 ELSE 0

\* /^[\s]*\d+\.\s+/m
NumberEnd(s, i) ==
    LET j == RunEnd(s, WhiteSpace, i)
        d == RunEnd(s, Digits, j)
        w == RunEnd(s, WhiteSpace, d + 1)
    IN IF /\ AtLineStart(s, i) /\ d > j /\ d <= Len(s) /\ s[d] = "."
          /\ w > d + 1
       THEN w - 1 ELSE 0

\* /^[\s]*[-*_]{3,}[\s]*$/m : the trailing [\s]* gives back characters until
\* $ holds
RuleEnd(s, i) ==
    LET j == RunEnd(s, WhiteSpace, i)
        m == RunEnd(s, {"-", "*", "_"}, j)
        q == RunEnd(s, WhiteSpace, m)
        stops == {p \in m..q : AtLineEnd(s, p)}
    IN IF AtLineStart(s, i) /\ m - j >= 3 /\ stops # {}
       THEN (CHOOSE p \in stops : \A r \in stops : r <= p) - 1
       ELSE 0

\* /<[^>]+>/
TagEnd(s, i) ==
    LET r == RunEndNot(s, {">"}, i + 1)
    IN IF i <= Len(s) /\ s[i] = "<" /\ r > i + 1 /\ r <= Len(s)
       THEN r ELSE 0

ReplaceLinks(s) ==
    Rewrite(s, [i \in 1..Len(s) |-> LinkEnd(s, i)],
            [i \in 1..Len(s) |-> Slice(s, i + 1, LinkLabelEnd(s, i) - 1)], 1)
ReplacePipedWikiLinks(s) ==
    Rewrite(s, [i \in 1..Len(s) |-> PipedWikiLinkEnd(s, i)],
            [i \in 1..Len(s) |->
                Slice(s, PipedTargetEnd(s, i) + 1, PipedWikiLinkEnd(s, i) - 2)], 1)
ReplaceWikiLinks(s) ==
    Rewrite(s, [i \in 1..Len(s) |-> WikiLinkEnd(s, i)],
            [i \in 1..Len(s) |-> Slice(s, i + 2, WikiLinkEnd(s, i) - 2)], 1)
RemoveImages(s) == Delete(s, [i \in 1..Len(s) |-> ImageEnd(s, i)])
RemoveBold(s) == Unwrap(s, {<<"*", "*">>, <<"_", "_">>})
RemoveItalic(s) == Unwrap(s, {<<"*">>, <<"_">>})
RemoveStrikethrough(s) == Unwrap(s, {<<"~", "~">>})
\* highlights left as they are
KeepHighlights(s) == s
RemoveHighlights(s) == Unwrap(s, {<<"=", "=">>})
RemoveHeaders(s) == Delete(s, [i \in 1..Len(s) |-> HeadingEnd(s, i)])
RemoveQuoteMarkers(s) == Delete(s, [i \in 1..Len(s) |-> QuoteMarkerEnd(s, i)])
RemoveBullets(s) == Delete(s, [i \in 1..Len(s) |-> BulletEnd(s, i)])
RemoveNumbers(s) == Delete(s, [i \in 1..Len(s) |-> NumberEnd(s, i)])
RemoveRules(s) == Delete(s, [i \in 1..Len(s) |-> RuleEnd(s, i)])
RemoveTags(s) == Delete(s, [i \in 1..Len(s) |-> TagEnd(s, i)])

\* the n-th replace statement of stripMarkdown
StripStep(n, s) ==
    CASE n = 1 -> ReplaceLinks(s)
      [] n = 2 -> ReplacePipedWikiLinks(s)
      [] n = 3 -> ReplaceWikiLinks(s)
      [] n = 4 -> RemoveImages(s)
      [] n = 5 -> RemoveBold(s)
      [] n = 6 -> RemoveItalic(s)
      [] n = 7 -> RemoveStrikethrough(s)
      [] n = 8 -> RemoveHighlights(s)
      [] n = 9 -> RemoveHeaders(s)
      [] n = 10 -> RemoveQuoteMarkers(s)
      [] n = 11 -> RemoveBullets(s)
      [] n = 12 -> RemoveNumbers(s)
      [] n = 13 -> RemoveRules(s)
      [] n = 14 -> RemoveTags(s)

\* the statements from the n-th on, in order: a statement that changes
\* nothing is passed over, and the next one that changes stripped is applied
RECURSIVE StripFrom(_, _)
StripFrom(stripped, n) ==
    LET changing == {m \in n..14 : StripStep(m, stripped) # stripped}
    IN IF changing = {} THEN stripped
       ELSE LET m == CHOOSE m \in changing : \A k \in changing : m <= k
            IN StripFrom(StripStep(m, stripped), m + 1)

stripMarkdown(t) == StripFrom(t, 1)

----------------------------------------------------------------------------
(* countCharacters                                                         *)

\* s.replace(/\s+/g, " ")
CollapseWhiteSpace(s) ==
    Rewrite(s, [i \in 1..Len(s) |->
                   IF IsSpace(s[i]) THEN RunEnd(s, WhiteSpace, i) - 1 ELSE 0],
            [i \in 1..Len(s) |-> <<" ">>], 1)

countCharacters(originalText, cleanedText, stripMarkdownFromCharCount) ==
    IF stripMarkdownFromCharCount
    THEN Len(Trim(CollapseWhiteSpace(stripMarkdown(cleanedText))))
    ELSE Len(cleanedText)

----------------------------------------------------------------------------
(* updateCount                                                             *)

\* What one call of updateCount() reads and computes: the editor it found and
\* its text, the two settings as cleanText and countCharacters read them,
\* cleanText's local after removeFrontmatter (the text itself when cleanText
\* returns early) and its result, countCharacters' local after stripMarkdown
\* (the cleaned text when it is not stripped), and the three numbers handed
\* to displayCount.
updateCount(editor, t, s) ==
    IF ~editor
    THEN [editor |-> FALSE, text |-> <<>>,
          ignoreCallouts |-> s.ignoreCallouts,
          stripMarkdownFromCharCount |-> s.stripMarkdownFromCharCount,
          frontless |-> <<>>, cleaned |-> <<>>, stripped |-> <<>>,
          sentenceCount |-> 0, wordCount |-> 0, charCount |-> 0]
    ELSE LET cleaned == cleanText(t, s.ignoreCallouts)
         IN [editor |-> TRUE, text |-> t,
             ignoreCallouts |-> s.ignoreCallouts,
             stripMarkdownFromCharCount |-> s.stripMarkdownFromCharCount,
             frontless |-> IF Len(Trim(t)) = 0 THEN t ELSE removeFrontmatter(t),
             cleaned |-> cleaned,
             stripped |-> IF s.stripMarkdownFromCharCount
                          THEN stripMarkdown(cleaned) ELSE cleaned,
             sentenceCount |-> countSentences(cleaned),
             wordCount |-> countWords(cleaned),
             charCount |-> countCharacters(t, cleaned, s.stripMarkdownFromCharCount)]

----------------------------------------------------------------------------
(* The plugin.                                                             *)

Settings == [ignoreCallouts : BOOLEAN, stripMarkdownFromCharCount : BOOLEAN]

Locations == {"statusbar", "sidebar"}

\* initializeDisplay(): the element this.statusBarEl holds afterwards
InitializedStatusBarEl(location) ==
    IF location = "statusbar" THEN "attached" ELSE "null"

\* initializeDisplay(): the attached elements afterwards, of n before
InitializedStatusBar(location, n) ==
    IF location = "statusbar" THEN n + 1 ELSE n

\* onload() has run on a new plugin object: loadSettings() merged what
\* data.json held into the defaults, initializeDisplay() added the status-bar
\* item if the display is the status bar, no debounce timer is pending, and
\* the updateCount() that ends onload() has counted the active editor's
\* text, if there is an editor.
InitPlugin(docs, pieces, locations) ==
    /\ vault = docs
    /\ keyboard = pieces
    /\ settings \in Settings
    /\ displayLocation \in locations
    /\ showWordCount = TRUE
    /\ loaded = TRUE
    /\ loads = 1
    /\ saving = 0
    /\ statusBarEl = InitializedStatusBarEl(displayLocation)
    /\ statusBar = InitializedStatusBar(displayLocation, 0)
    /\ timer = FALSE
    /\ timers = 0
    /\ edits = 0
    /\ \/ activeEditor = TRUE /\ text \in docs
       \/ activeEditor = FALSE /\ text = <<>>
    /\ last = updateCount(activeEditor, text, settings)

\* onload() has run with the display in the status bar, the default
InitWith(docs, pieces) == InitPlugin(docs, pieces, {"statusbar"})

\* "editor-change" with no clearTimeout(timeout) in debounce(): the timeout
\* set before stays pending beside the new one
EditorChangeWithoutClear(piece) ==
    /\ loaded
    /\ activeEditor
    /\ edits < MaxEdits
    /\ text' = text \o piece
    /\ edits' = edits + 1
    /\ timer' = TRUE
    /\ timers' = timers + 1
    /\ UNCHANGED <<vault, keyboard, activeEditor, settings, last, display>>

\* "editor-change": the user has typed or pasted a piece of text at the end
\* of the document; debouncedUpdate() clears the pending timeout and sets a
\* new one.  clearTimeout(timeout) cancels the timeout the closure holds, if
\* it is pending, and nothing else.
EditorChange(piece) ==
    /\ loaded
    /\ activeEditor
    /\ edits < MaxEdits
    /\ text' = text \o piece
    /\ edits' = edits + 1
    /\ timer' = TRUE
    /\ timers' = (IF timer THEN timers - 1 ELSE timers) + 1
    /\ UNCHANGED <<vault, keyboard, activeEditor, settings, last, display>>

\* a pending timeout fires, 150 ms after the editor-change that set it: the
\* oldest one, which is the closure's own only when no other is pending
DebounceFire ==
    /\ timers > 0
    /\ timers' = timers - 1
    /\ timer' = (timer /\ timers > 1)
    /\ last' = updateCount(activeEditor, text, settings)
    /\ UNCHANGED <<vault, keyboard, activeEditor, text, settings, edits, display>>

\* "active-leaf-change" to a markdown leaf that holds doc
OpenDocument(doc) ==
    /\ loaded
    /\ activeEditor' = TRUE
    /\ text' = doc
    /\ edits' = 0
    /\ last' = updateCount(TRUE, doc, settings)
    /\ UNCHANGED <<vault, keyboard, settings, timer, timers, display>>

\* "active-leaf-change" to a leaf without an editor
LeaveEditor ==
    /\ loaded
    /\ activeEditor
    /\ activeEditor' = FALSE
    /\ text' = <<>>
    /\ edits' = 0
    /\ last' = updateCount(FALSE, <<>>, settings)
    /\ UNCHANGED <<vault, keyboard, settings, timer, timers, display>>

\* refreshDisplay(), the status bar: the element this.statusBarEl holds is
\* removed and the field set to null, and initializeDisplay() adds a new one
\* if the display is the status bar
RefreshedStatusBar(location) ==
    InitializedStatusBar(location,
        IF statusBarEl = "attached" THEN statusBar - 1 ELSE statusBar)

\* the "Ignore callouts" toggle, when saveData() resolves before any other
\* event: saveSettings(), with its refreshDisplay(), and then updateCount()
SetIgnoreCallouts(value) ==
    /\ loaded
    /\ saving = 0
    /\ value # settings.ignoreCallouts
    /\ settings' = [settings EXCEPT !.ignoreCallouts = value]
    /\ statusBarEl' = InitializedStatusBarEl(displayLocation)
    /\ statusBar' = RefreshedStatusBar(displayLocation)
    /\ last' = updateCount(activeEditor, text, settings')
    /\ UNCHANGED <<vault, keyboard, activeEditor, text, timer, timers, edits,
                   loaded, loads, displayLocation, showWordCount, saving>>

\* the "Strip markdown from character count" toggle, in the same case
SetStripMarkdown(value) ==
    /\ loaded
    /\ saving = 0
    /\ value # settings.stripMarkdownFromCharCount
    /\ settings' = [settings EXCEPT !.stripMarkdownFromCharCount = value]
    /\ statusBarEl' = InitializedStatusBarEl(displayLocation)
    /\ statusBar' = RefreshedStatusBar(displayLocation)
    /\ last' = updateCount(activeEditor, text, settings')
    /\ UNCHANGED <<vault, keyboard, activeEditor, text, timer, timers, edits,
                   loaded, loads, displayLocation, showWordCount, saving>>

Next ==
    \/ \E piece \in keyboard : EditorChange(piece)
    \/ DebounceFire
    \/ \E doc \in vault : OpenDocument(doc)
    \/ LeaveEditor
    \/ \E value \in BOOLEAN : SetIgnoreCallouts(value)
    \/ \E value \in BOOLEAN : SetStripMarkdown(value)

----------------------------------------------------------------------------
(* The plugin with saveData() that takes time, onunload() and a new        *)
(* onload().  A handler of the settings tab assigns the setting and calls  *)
(* saveSettings(), which awaits saveData(); what follows the await,        *)
(* refreshDisplay() and for the toggles updateCount(), runs when saveData() *)
(* resolves, after other events perhaps, and after onunload() as well.     *)

\* onChange of a setting, up to the await in saveSettings()
SaveSettings ==
    /\ loaded
    /\ saving < MaxSaving
    /\ saving' = saving + 1
    /\ UNCHANGED <<vault, keyboard, activeEditor, text, timer, timers, edits,
                   last, loaded, loads, statusBarEl, statusBar>>

\* the "Display location" dropdown
DisplayLocationChanged(value) ==
    /\ value # displayLocation
    /\ displayLocation' = value
    /\ SaveSettings
    /\ UNCHANGED <<settings, showWordCount>>

\* the "Ignore callouts" toggle
IgnoreCalloutsChanged(value) ==
    /\ value # settings.ignoreCallouts
    /\ settings' = [settings EXCEPT !.ignoreCallouts = value]
    /\ SaveSettings
    /\ UNCHANGED <<displayLocation, showWordCount>>

\* the "Show word count" toggle
ShowWordCountChanged(value) ==
    /\ value # showWordCount
    /\ showWordCount' = value
    /\ SaveSettings
    /\ UNCHANGED <<settings, displayLocation>>

\* the "Strip markdown from character count" toggle
StripMarkdownChanged(value) ==
    /\ value # settings.stripMarkdownFromCharCount
    /\ settings' = [settings EXCEPT !.stripMarkdownFromCharCount = value]
    /\ SaveSettings
    /\ UNCHANGED <<displayLocation, showWordCount>>

\* saveData() resolves: refreshDisplay(), whose updateCount() reads the
\* settings as they are by now, and for a toggle updateCount() once more
SaveSettingsDone ==
    /\ saving > 0
    /\ saving' = saving - 1
    /\ statusBarEl' = InitializedStatusBarEl(displayLocation)
    /\ statusBar' = RefreshedStatusBar(displayLocation)
    /\ last' = updateCount(activeEditor, text, settings)
    /\ UNCHANGED <<vault, keyboard, activeEditor, text, settings, timer, timers,
                   edits, loaded, loads, displayLocation, showWordCount>>

\* onunload(): the element this.statusBarEl holds is removed, the field keeps
\* it; the event handlers and the settings tab go with the plugin, a pending
\* timeout and a pending saveSettings() do not
Onunload ==
    /\ loaded
    /\ loaded' = FALSE
    /\ statusBarEl' = IF statusBarEl = "null" THEN "null" ELSE "removed"
    /\ statusBar' = IF statusBarEl = "attached" THEN statusBar - 1 ELSE statusBar
    /\ UNCHANGED <<vault, keyboard, activeEditor, text, settings, timer, timers,
                   edits, last, loads, displayLocation, showWordCount, saving>>

\* the plugin is enabled again: onload() on a new plugin object, whose
\* statusBarEl is not set and whose settings are those saved.  Here this
\* happens only once the timeout and the saves of the object before have
\* been served.
Onload ==
    /\ ~loaded
    /\ loads < MaxLoads
    /\ saving = 0
    /\ timers = 0
    /\ loaded' = TRUE
    /\ loads' = loads + 1
    /\ statusBarEl' = InitializedStatusBarEl(displayLocation)
    /\ statusBar' = InitializedStatusBar(displayLocation, statusBar)
    /\ timer' = FALSE
    /\ last' = updateCount(activeEditor, text, settings)
    /\ UNCHANGED <<vault, keyboard, activeEditor, text, settings, timers, edits,
                   displayLocation, showWordCount, saving>>

NextAsync ==
    \/ \E piece \in keyboard : EditorChange(piece)
    \/ DebounceFire
    \/ \E doc \in vault : OpenDocument(doc)
    \/ LeaveEditor
    \/ \E value \in Locations : DisplayLocationChanged(value)
    \/ \E value \in BOOLEAN : IgnoreCalloutsChanged(value)
    \/ \E value \in BOOLEAN : ShowWordCountChanged(value)
    \/ \E value \in BOOLEAN : StripMarkdownChanged(value)
    \/ SaveSettingsDone
    \/ Onunload
    \/ Onload

----------------------------------------------------------------------------
(* Documents with frontmatter, code and callouts.                          *)

CleaningDocs ==
    { <<>>,
      <<"-", "-", "-", "\n", "-", "-", "-">>,
      <<Backtick, "a", Backtick>>,
      <<Backtick, Backtick, Backtick, "b", Backtick, Backtick, Backtick>>,
      <<">", "[", "!", "n", "]", "\n", ">", "b">> }
CleaningKeys == {<<" ">>, <<"\n">>, <<"b">>}

Init == InitWith(CleaningDocs, CleaningKeys)
Spec == Init /\ [][Next]_vars

----------------------------------------------------------------------------
(* C1, C2: what cleaning leaves.                                           *)

\* empty or whitespace-only
Blank(s) == \A i \in 1..Len(s) : IsSpace(s[i])

NothingLeft == last.editor /\ (Blank(last.text) \/ Blank(last.cleaned))

\* C1 as claimed: when the raw text is empty or whitespace-only, or cleanText
\* leaves an empty or whitespace-only string, the sentence count, the word
\* count and the character count of updateCount are all 0.
C1_AllZeroWhenNothingLeft ==
    NothingLeft =>
        last.sentenceCount = 0 /\ last.wordCount = 0 /\ last.charCount = 0

\* C1 as amended: in those cases the sentence count and the word count are 0;
\* the character count is 0 when the raw text is empty or whitespace-only or
\* when stripMarkdownFromCharCount is true, and with stripMarkdownFromCharCount
\* false it is the number of whitespace characters cleanText left.
C1_ZeroCountsWhenNothingLeft ==
    NothingLeft =>
        /\ last.sentenceCount = 0
        /\ last.wordCount = 0
        /\ last.charCount =
               IF Blank(last.text) \/ last.stripMarkdownFromCharCount
               THEN 0 ELSE Len(last.cleaned)

\* cleaning has left whitespace only, and it is counted as characters
C1_WhitespaceLeftCounted ==
    /\ last.editor
    /\ ~Blank(last.text)
    /\ Blank(last.cleaned)
    /\ ~last.stripMarkdownFromCharCount
    /\ last.charCount > 0
    /\ last.sentenceCount = 0
    /\ last.wordCount = 0

\* C2: the text cleanText returns is never longer than the raw text, for
\* either value of ignoreCallouts.
C2_CleanedNoLonger == last.editor => Len(last.cleaned) <= Len(last.text)

\* frontmatter, code or a callout has been removed and text is left
C2_SomethingRemoved ==
    /\ last.editor
    /\ last.ignoreCallouts
    /\ 0 < Len(last.cleaned)
    /\ Len(last.cleaned) < Len(last.text)
    /\ ~Blank(last.cleaned)

----------------------------------------------------------------------------
(* C3: frontmatter.                                                        *)

FrontmatterDocs == {<<>>, <<"-", "-", "-", "\n">>}
FrontmatterKeys == {Dashes, <<"\n">>, <<" ">>, <<"k">>}
InitFrontmatter == InitWith(FrontmatterDocs, FrontmatterKeys)
SpecFrontmatter == InitFrontmatter /\ [][Next]_vars

\* position p of s begins a line (Len(s) + 1 begins the empty last line of a
\* text that ends in a newline)
LineStartsAt(s, p) == p = 1 \/ (p > 1 /\ s[p - 1] = "\n")

\* the position after the line that begins at p: its newline, or Len(s) + 1
LineStop(s, p) ==
    IF \E q \in p..Len(s) : s[q] = "\n"
    THEN CHOOSE q \in p..Len(s) :
             s[q] = "\n" /\ \A r \in p..(q - 1) : s[r] # "\n"
    ELSE Len(s) + 1

\* the line that begins at p is not the first one and holds three dashes
\* with nothing but whitespace around them
ClosesFrontmatter(s, p) ==
    /\ p > 1
    /\ LineStartsAt(s, p)
    /\ \E a \in p..(LineStop(s, p) - 3) :
           /\ s[a] = "-" /\ s[a + 1] = "-" /\ s[a + 2] = "-"
           /\ \A r \in (p..(a - 1)) \cup ((a + 3)..(LineStop(s, p) - 1)) :
                  IsSpace(s[r])

ClosingLines(s) == {p \in 2..(Len(s) + 1) : ClosesFrontmatter(s, p)}

OpensFrontmatter(s) ==
    Len(s) >= 3 /\ s[1] = "-" /\ s[2] = "-" /\ s[3] = "-"

\* what follows the newline that ends the first closing line
AfterFrontmatter(s) ==
    LET p == CHOOSE p \in ClosingLines(s) : \A q \in ClosingLines(s) : p <= q
    IN IF LineStop(s, p) >= Len(s) THEN <<>>
       ELSE [i \in 1..(Len(s) - LineStop(s, p)) |-> s[LineStop(s, p) + i]]

\* C3: removeFrontmatter returns a text that does not start with '---'
\* unchanged; when the text starts with '---' and some later line trims to
\* exactly '---', it returns exactly what follows the first such line; when
\* the text starts with '---' and no later line closes it, it returns the
\* text unchanged.
C3_FrontmatterRemoved ==
    last.editor =>
        last.frontless =
            IF OpensFrontmatter(last.text) /\ ClosingLines(last.text) # {}
            THEN AfterFrontmatter(last.text)
            ELSE last.text

\* a closed frontmatter block with text after it has been removed
C3_ClosedBlockRemoved ==
    /\ last.editor
    /\ OpensFrontmatter(last.text)
    /\ ClosingLines(last.text) # {}
    /\ last.frontless # <<>>
    /\ Len(last.frontless) < Len(last.text)
    /\ \E i \in 1..Len(last.frontless) : last.frontless[i] = "k"

----------------------------------------------------------------------------
(* C4: a fence that nothing closes.                                        *)

FenceDocs == {<<>>, Fence}
FenceKeys == {<<Backtick>>, <<"a">>, <<"\n">>}
InitFence == InitWith(FenceDocs, FenceKeys)
SpecFence == InitFence /\ [][Next]_vars

FenceAt(s, p) ==
    /\ p >= 1
    /\ p + 2 <= Len(s)
    /\ s[p] = Backtick /\ s[p + 1] = Backtick /\ s[p + 2] = Backtick

\* s holds a fence, and no fence begins after the first one has ended
UnterminatedFence(s) ==
    \E p \in 1..Len(s) :
        /\ FenceAt(s, p)
        /\ \A q \in 1..(p - 1) : ~FenceAt(s, q)
        /\ \A q \in (p + 3)..Len(s) : ~FenceAt(s, q)

\* C4: when the text holds a three-backtick fence with no closing fence after
\* it, the cleaned text still holds three contiguous backticks, whatever
\* follows the fence.
C4_UnterminatedFenceKept ==
    (last.editor /\ UnterminatedFence(last.text)) =>
        \E p \in 1..Len(last.cleaned) : FenceAt(last.cleaned, p)

----------------------------------------------------------------------------
(* C5: callouts.                                                           *)

CalloutHeader == <<">", "[", "!", "n", "]">>
CalloutDocs == {<<">">>, CalloutHeader \o <<"b">>}
CalloutKeys == {<<">">>, <<"\n">>, <<"[", "!", "n", "]">>, <<"b">>}
InitCallout == InitWith(CalloutDocs, CalloutKeys)
SpecCallout == InitCallout /\ [][Next]_vars

\* where the line that holds position i begins
LineStartOf(s, i) ==
    CHOOSE p \in 1..i :
        LineStartsAt(s, p) /\ \A q \in (p + 1)..i : ~LineStartsAt(s, q)

\* the characters of s at the positions in keep, in their order
Pick(s, keep) ==
    LET picked[i \in 0..Len(s)] ==
            IF i = 0 THEN <<>>
            ELSE IF i \in keep THEN Append(picked[i - 1], s[i])
            ELSE picked[i - 1]
    IN picked[Len(s)]

\* the non-whitespace characters of the lines that do not begin with '>'
OutsideQuotes(s) ==
    Pick(s, {i \in 1..Len(s) : ~IsSpace(s[i]) /\ s[LineStartOf(s, i)] # ">"})

RECURSIVE IsSubsequence(_, _)
IsSubsequence(a, b) ==
    IF a = <<>> THEN TRUE
    ELSE IF b = <<>> THEN FALSE
    ELSE IF Head(a) = Head(b) THEN IsSubsequence(Tail(a), Tail(b))
    ELSE IsSubsequence(a, Tail(b))

\* a callout header line and, after it, only lines that begin with '>'
CalloutOnly(s) ==
    /\ StartsWithAt(s, CalloutHeader, 1)
    /\ \A p \in 1..Len(s) : LineStartsAt(s, p) => s[p] = ">"

\* C5, what callout removal keeps: with ignoreCallouts true, every
\* non-whitespace character of a line that does not begin with '>' is still
\* in the cleaned text, in its order.
C5_OtherLinesKept ==
    (last.editor /\ last.ignoreCallouts) =>
        IsSubsequence(OutsideQuotes(last.text), last.cleaned)

\* C5, a document that is one callout: the counts are 0, 0 and 0.
C5_CalloutOnlyCountsZero ==
    (last.editor /\ last.ignoreCallouts /\ CalloutOnly(last.text)) =>
        last.sentenceCount = 0 /\ last.wordCount = 0 /\ last.charCount = 0

\* C5: with ignoreCallouts true a callout is removed as its header line and
\* the lines beginning with '>' that follow it, no non-whitespace character
\* of a line that does not begin with '>' is removed, and a document that
\* consists of a callout only counts 0 sentences, 0 words and 0 characters.
C5_CalloutsRemovedByLine == C5_OtherLinesKept /\ C5_CalloutOnlyCountsZero

----------------------------------------------------------------------------
(* C6: images.                                                             *)

ImageDocs == {<<>>, <<"!", "[", "]", "(", "u", ")">>}
ImageKeys == {<<"!">>, <<"[", "a", "]">>, <<"(", "u", ")">>}
InitImage == InitWith(ImageDocs, ImageKeys)
SpecImage == InitImage /\ [][Next]_vars

\* ![alt](target) begins at p: '!', '[', an alt text without ']', ']', '(',
\* a non-empty target without ')', ')'
ImageAt(s, p) ==
    /\ p + 1 <= Len(s)
    /\ s[p] = "!"
    /\ s[p + 1] = "["
    /\ \E q \in (p + 2)..Len(s) :
           /\ s[q] = "]"
           /\ \A r \in (p + 2)..(q - 1) : s[r] # "]"
           /\ q + 1 <= Len(s)
           /\ s[q + 1] = "("
           /\ \E c \in (q + 3)..Len(s) :
                  s[c] = ")" /\ \A r \in (q + 2)..(c - 1) : s[r] # ")"

\* s holds images, and every '!' of s begins one
OnlyImageMarks(s) ==
    /\ \E p \in 1..Len(s) : s[p] = "!"
    /\ \A p \in 1..Len(s) : s[p] = "!" => ImageAt(s, p)

\* C6: stripMarkdown replaces every image ![alt](target) by the empty string,
\* so that when every '!' of the text begins an image, no '!' is left in the
\* stripped text, for empty and non-empty alt text alike.
C6_ImagesDropped ==
    (last.editor /\ last.stripMarkdownFromCharCount /\ OnlyImageMarks(last.text)) =>
        \A i \in 1..Len(last.stripped) : last.stripped[i] # "!"

----------------------------------------------------------------------------
(* C7: abbreviations.                                                      *)

ToUpper(c) ==
    IF \E u \in DOMAIN Folded : Folded[u] = c
    THEN CHOOSE u \in DOMAIN Folded : Folded[u] = c
    ELSE c

\* the n-th entry of the list as it is written, in capitals and in small
\* letters, and an entry that begins with a period after a letter as well
Variants(n) ==
    {exceptions[n],
     [k \in 1..Len(exceptions[n]) |-> ToUpper(exceptions[n][k])],
     [k \in 1..Len(exceptions[n]) |-> ToLower(exceptions[n][k])]}
        \cup (IF exceptions[n][1] = "." THEN {<<"a">> \o exceptions[n]}
              ELSE {})
AbbreviationKeys == {<<" ", "a">>, <<".">>}

\* the vault holds one entry of the list in its variants
InitAbbreviations ==
    \E n \in 1..Len(exceptions) : InitWith(Variants(n), AbbreviationKeys)
SpecAbbreviations == InitAbbreviations /\ [][Next]_vars

\* n words, each after a space
RECURSIVE Words(_)
Words(n) == IF n = 0 THEN <<>> ELSE <<" ", "a">> \o Words(n - 1)

\* an abbreviation, words after it, and one period that ends the sentence
AbbreviatedSentence(s) ==
    \E doc \in vault, n \in 1..MaxEdits : s = doc \o Words(n) \o <<".">>

\* C7: a text made of one entry of the exception list, in any letter case,
\* followed by words and one final terminator counts as 1 sentence: the
\* periods of the entry are no sentence boundaries.
C7_AbbreviationNotABoundary ==
    (last.editor /\ AbbreviatedSentence(last.text)) => last.sentenceCount = 1

\* "DR. a." and the like have been counted as one sentence
C7_CapitalDoctorCounted ==
    /\ last.editor
    /\ AbbreviatedSentence(last.text)
    /\ StartsWithAt(last.text, <<"D", "R", ".">>, 1)
    /\ last.sentenceCount = 1

----------------------------------------------------------------------------
(* C8: ellipsis.                                                           *)

EllipsisDocs == {<<"W", "a", "i", "t">>, <<"e", "t", "c">>}
EllipsisKeys == {<<".", ".", ".">>, <<" ", "w", "h", "a", "t">>, <<"?">>}
InitEllipsis == InitWith(EllipsisDocs, EllipsisKeys)
SpecEllipsis == InitEllipsis /\ [][Next]_vars

\* a question of two words with three periods between the words
EllipsisInSentence(s) ==
    \E doc \in EllipsisDocs :
        s = doc \o <<".", ".", ".">> \o <<" ", "w", "h", "a", "t">> \o <<"?">>

\* C8: a run of exactly three periods between two words of a sentence is no
\* sentence boundary: the sentence still counts as 1, as "Wait... what?".
C8_EllipsisNotABoundary ==
    (last.editor /\ EllipsisInSentence(last.text)) => last.sentenceCount = 1

----------------------------------------------------------------------------
(* C9: emphasis and the character count.                                   *)

Delimiters ==
    {<<"*", "*">>, <<"_", "_">>, <<"*">>, <<"_">>, <<"~", "~">>, <<"=", "=">>}
Bold == <<"b", "o", "l", "d">>
Prefixes == {<<>>, <<"a", " ">>}
EmphasisDocs == {pre \o d \o Bold \o d : pre \in Prefixes, d \in Delimiters}
EmphasisKeys == {<<" ">>, <<"t", "e", "x", "t">>}
InitEmphasis == InitWith(EmphasisDocs, EmphasisKeys)
SpecEmphasis == InitEmphasis /\ [][Next]_vars

\* the length of s once every whitespace run is one space and the ends are
\* trimmed: its non-whitespace characters, and one for each gap between them
Visible(s) ==
    Cardinality({i \in 1..Len(s) : ~IsSpace(s[i])})
        + Cardinality({i \in 2..Len(s) :
                           /\ ~IsSpace(s[i])
                           /\ IsSpace(s[i - 1])
                           /\ \E j \in 1..(i - 1) : ~IsSpace(s[j])})

\* C9: with stripMarkdownFromCharCount true the character count is the length
\* of the stripped text with every whitespace run collapsed to one space and
\* the ends trimmed, and a word wrapped in a matching delimiter pair counts
\* as the word alone: "**bold** text" counts 9.
C9_EmphasisNotCounted ==
    (last.editor /\ last.stripMarkdownFromCharCount) =>
        /\ last.charCount = Visible(last.stripped)
        /\ \A pre \in Prefixes, d \in Delimiters :
               StartsWithAt(last.text, pre \o d \o Bold \o d, 1) =>
                   last.charCount =
                       Visible(pre \o Bold
                                   \o Slice(last.text,
                                            Len(pre) + 2 * Len(d) + 5,
                                            Len(last.text)))

\* "**bold** text" has been counted as 9 characters
C9_BoldTextCountsNine ==
    /\ last.editor
    /\ last.stripMarkdownFromCharCount
    /\ last.text = <<"*", "*">> \o Bold \o <<"*", "*", " ", "t", "e", "x", "t">>
    /\ last.charCount = 9

----------------------------------------------------------------------------
(* C10: words and whitespace.                                              *)

WordDocs == {<<>>, <<" ", "a">>}
WordKeys == {<<"a">>, <<" ">>, <<"\t">>, <<"\n">>}
InitWords == InitWith(WordDocs, WordKeys)
SpecWords == InitWords /\ [][Next]_vars

\* where the tokens of s begin
TokenStarts(s) ==
    {i \in 1..Len(s) : ~IsSpace(s[i]) /\ (i = 1 \/ IsSpace(s[i - 1]))}

\* s with one space for each whitespace run between two tokens, and without
\* the whitespace at its ends
SingleSpaced(s) ==
    LET spaced[i \in 0..Len(s)] ==
            IF i = 0 THEN <<>>
            ELSE IF ~IsSpace(s[i]) THEN Append(spaced[i - 1], s[i])
            ELSE IF /\ i < Len(s)
                    /\ ~IsSpace(s[i + 1])
                    /\ \E j \in 1..(i - 1) : ~IsSpace(s[j])
                 THEN Append(spaced[i - 1], " ")
            ELSE spaced[i - 1]
    IN spaced[Len(s)]

\* C10: the word count is the number of tokens, whatever whitespace lies
\* between and around them: it is the word count of the same tokens with
\* single spaces between them, and it is 0 for an empty or whitespace-only
\* text.
C10_WhitespaceInvariant ==
    last.editor =>
        /\ last.wordCount = Cardinality(TokenStarts(last.text))
        /\ last.wordCount = countWords(SingleSpaced(last.text))
        /\ Blank(last.text) => last.wordCount = 0

\* two tokens after leading whitespace, with a run of different whitespace
\* characters between them, have been counted as two words
C10_MixedRunCounted ==
    /\ last.editor
    /\ last.wordCount = 2
    /\ Len(last.text) >= 1
    /\ IsSpace(last.text[1])
    /\ \E i \in 2..(Len(last.text) - 2) :
           /\ ~IsSpace(last.text[i - 1])
           /\ IsSpace(last.text[i]) /\ IsSpace(last.text[i + 1])
           /\ last.text[i] # last.text[i + 1]
           /\ ~IsSpace(last.text[i + 2])

----------------------------------------------------------------------------
(* C11: the debounced update.                                              *)

DebounceDocs == {<<>>, <<"a">>}
DebounceKeys == {<<"b">>, <<" ">>}
InitDebounce == InitWith(DebounceDocs, DebounceKeys)

\* setTimeout: a timeout that is pending elapses.  Of the steps of Next only
\* DebounceFire takes a timeout away, and it can whenever one is pending, so
\* this is weak fairness of DebounceFire
TimeoutElapses == timers > 0 /\ timers' = timers - 1
SpecDebounce == InitDebounce /\ [][Next]_vars /\ WF_timers(TimeoutElapses)

\* an editor-change event leaves exactly one timeout pending, the one it set
EventRestartsTimer == (edits' = edits + 1) => (timers' = 1 /\ timer')

\* a timeout that fires is the only one pending, and updateCount() then
\* reads the text the editor holds at that time
FireCountsCurrentText ==
    (timers' < timers) =>
        /\ timers = 1
        /\ timers' = 0
        /\ last'.editor = activeEditor
        /\ activeEditor => last'.text = text

\* C11: at most one debounce timeout is pending at any time; each
\* editor-change cancels the pending timeout and starts a new one; so a burst
\* of editor-changes leads to one debounced updateCount() call, which runs
\* after the last event of the burst and reads the text current at that time.
C11_BurstCoalesced ==
    /\ [](timers <= 1)
    /\ [](timer <=> timers = 1)
    /\ [][EventRestartsTimer]_vars
    /\ [][FireCountsCurrentText]_vars
    /\ (timers = 1) ~> (timers = 0)

\* a burst of MaxEdits editor-changes since the last count, and one timeout
\* pending for all of them
C11_BurstOnOneTimer ==
    /\ activeEditor
    /\ edits = MaxEdits
    /\ timers = 1
    /\ last.editor
    /\ Len(text) = Len(last.text) + MaxEdits

----------------------------------------------------------------------------
(* C12: the status-bar item.                                               *)

DisplayDocs == {<<>>}
DisplayKeys == {<<"a">>}
InitDisplay == InitPlugin(DisplayDocs, DisplayKeys, Locations)
SpecDisplay == InitDisplay /\ [][NextAsync]_vars

\* C12, the items: at most one status-bar item of the plugin is attached
C12_AtMostOneItem == statusBar <= 1

\* C12, the sidebar: when the plugin is loaded, no saveSettings() is under
\* way and the display is the sidebar, so that the last refreshDisplay() has
\* run with 'sidebar', statusBarEl is null and no item is attached
C12_NoItemForSidebar ==
    (loaded /\ saving = 0 /\ displayLocation = "sidebar") =>
        (statusBarEl = "null" /\ statusBar = 0)

\* C12: over any sequence of onload, changes of settings with their
\* saveSettings and refreshDisplay, interleaved too, and onunload, at most
\* one status-bar item of the plugin is attached at any time, and after a
\* refreshDisplay with displayLocation 'sidebar' none is attached and
\* statusBarEl is null.
C12_OneStatusBarItem == C12_AtMostOneItem /\ C12_NoItemForSidebar

\* between its onload and its onunload a plugin object keeps to both
C12_WhileLoadedFirst == (loads = 1 /\ loaded) => C12_OneStatusBarItem

============================================================================
